---- MODULE Spec2Model ----
(***************************************************************************)
(* Model of src/src/ui/file_browser_colored.py: the filter proxy           *)
(* CADFileFilterProxyModel and the file browser widget CADFileBrowser.     *)
(*                                                                         *)
(* Three specifications share the variables:                               *)
(*   FilterSpec  the proxy's filter predicate applied to one source row    *)
(*               while the search text changes;                            *)
(*   Spec        the browser's handlers acting on a small file system;     *)
(*   ClickSpec   double-clicks on the items of the tree.                   *)
(***************************************************************************)
EXTENDS Integers, Sequences, FiniteSets, TLC

VARIABLES
    filter_text,    \* proxy_model.filterRegExp().pattern()
    row,            \* a row of the source model: [name, isDir]
    accepted,       \* result of filterAcceptsRow for row under filter_text
    fs,             \* the file system: path -> "absent" | "file" | "dir"
    current_path,   \* CADFileBrowser.current_path
    model_root,     \* self.model.rootPath()
    tree_root,      \* self.tree_view.rootIndex(), as a path
    watched_dirs,   \* self.file_watcher.directories()
    watched_files,  \* self.file_watcher.files()
    selection,      \* paths of self.tree_view.selectedIndexes()
    current_index,  \* path of self.tree_view.currentIndex()
    status_bar,     \* self.status_bar.text()
    expanded,       \* paths of the indexes the tree view holds expanded
    last            \* what the handler that ran last did

vars == <<filter_text, row, accepted, fs, current_path, model_root, tree_root,
          watched_dirs, watched_files, selection, current_index, status_bar,
          expanded, last>>


(***************************************************************************)
(* Text.  A string is a sequence of characters; the alphabet holds an      *)
(* ASCII letter in both cases, the Greek sigma in its three forms          *)
(* (U+03C3 "sigma", U+03C2 final "fsigma", U+03A3 capital "SIGMA") and a   *)
(* digit, which is uncased.                                                *)
(***************************************************************************)
Chars == {"a", "A", "sigma", "fsigma", "SIGMA", "1"}

MaxLen == 2

Words(n) == UNION {[1..k -> Chars] : k \in 0..n}

Cased(c) == c # "1"

\* str.lower() of one character outside the capital-sigma rule
lowerChar(c) ==
    CASE c = "A" -> "a"
      [] c = "SIGMA" -> "sigma"
      [] OTHER -> c

\* str.upper() of one character
upperChar(c) ==
    CASE c = "a" -> "A"
      [] c = "sigma" -> "SIGMA"
      [] c = "fsigma" -> "SIGMA"
      [] OTHER -> c

\* CPython's Final_Sigma test: a capital sigma that follows a cased
\* character and is not followed by one lower-cases to the final sigma.
FinalSigma(s, i) ==
    /\ i > 1
    /\ Cased(s[i - 1])
    /\ (i = Len(s) \/ ~Cased(s[i + 1]))

\* str.lower()
lower(s) ==
    [i \in 1..Len(s) |->
        IF s[i] = "SIGMA" /\ FinalSigma(s, i) THEN "fsigma" ELSE lowerChar(s[i])]

\* Python's  needle in hay  for strings
Contains(hay, needle) ==
    \E i \in 1..(Len(hay) + 1) :
        /\ i + Len(needle) - 1 <= Len(hay)
        /\ SubSeq(hay, i, i + Len(needle) - 1) = needle

(***************************************************************************)
(* CADFileFilterProxyModel.filterAcceptsRow                                *)
(***************************************************************************)
filterAcceptsRow_noDirCheck(r, pattern) ==
    LET ft == lower(pattern)
    IN  IF ft = <<>> THEN TRUE ELSE Contains(lower(r.name), ft)

filterAcceptsRow_caseSensitive(r, pattern) ==
    IF r.isDir THEN TRUE
    ELSE IF pattern = <<>> THEN TRUE ELSE Contains(r.name, pattern)

filterAcceptsRow(r, pattern) ==
    IF r.isDir THEN TRUE
    ELSE LET ft == lower(pattern)
         IN  IF ft = <<>> THEN TRUE
             ELSE Contains(lower(r.name), ft)

(***************************************************************************)
(* Paths and the file system.  A path is the sequence of its components;   *)
(* <<>> is "/".  Python's None and the  checked=False  argument that a     *)
(* QAction.triggered connection passes are kept apart from every path.     *)
(***************************************************************************)
Names == {"a", "b"}

\* "/", the directory /a and what it may hold
Paths == {<<>>, <<"a">>} \cup {<<"a", n>> : n \in Names}

NoPath == <<"None">>

CheckedFalse == <<"False">>

\* os.path.join(parent, name) for a relative one-component name
join(parent, name) == Append(parent, name)

\* os.path.dirname
dirname(p) == IF p = <<>> THEN <<>> ELSE SubSeq(p, 1, Len(p) - 1)

\* os.path.basename
basename(p) == IF p = <<>> THEN "" ELSE p[Len(p)]

HasPrefix(q, p) == Len(q) >= Len(p) /\ SubSeq(q, 1, Len(p)) = p

\* os.path.exists, os.path.isdir, os.path.isfile
exists(f, p) == p \in Paths /\ f[p] # "absent"

isdir(f, p) == p \in Paths /\ f[p] = "dir"

isfile(f, p) == p \in Paths /\ f[p] = "file"

\* the file systems over Paths: "/" is a directory and every entry lies in
\* a directory
FileSystems ==
    {f \in [Paths -> {"absent", "file", "dir"}] :
        /\ f[<<>>] = "dir"
        /\ \A p \in Paths \ {<<>>} : f[p] # "absent" => f[dirname(p)] = "dir"}

\* open(file_path, 'w') on a path that does not exist
CanOpenW(f, p) == isdir(f, dirname(p)) /\ ~isdir(f, p)

AfterOpenW(f, p) == [f EXCEPT ![p] = "file"]

\* os.makedirs(folder_path) on a path that does not exist: fails when a
\* component of the path is a file, creates the missing components otherwise
CanMakedirs(f, p) == \A q \in Paths : (HasPrefix(p, q) /\ q # p) => f[q] # "file"

AfterMakedirs(f, p) ==
    [q \in Paths |-> IF HasPrefix(p, q) /\ f[q] = "absent" THEN "dir" ELSE f[q]]

\* os.rename(src, dst) with dst absent and in the directory of src
CanRename(f, src) == src # <<>> /\ exists(f, src)

AfterRename(f, src, dst) ==
    [q \in Paths |->
        IF HasPrefix(q, dst)
        THEN f[src \o SubSeq(q, Len(dst) + 1, Len(q))]
        ELSE IF HasPrefix(q, src) THEN "absent" ELSE f[q]]

\* shutil.rmtree(path) on a directory, os.remove(path) on a file
AfterRmtree(f, p) == [q \in Paths |-> IF HasPrefix(q, p) THEN "absent" ELSE f[q]]

AfterRemove(f, p) == [f EXCEPT ![p] = "absent"]

(***************************************************************************)
(* What a handler did: the events of its run, in order.                    *)
(*   refresh   self.refresh() was called                                   *)
(*   emit      a signal of the browser was emitted with arguments a, b     *)
(*   question  QMessageBox.question was shown                              *)
(*   warning   QMessageBox.warning was shown                               *)
(*   critical  QMessageBox.critical was shown                              *)
(*   caught    an exception was caught by the handler's  except Exception  *)
(*   raise     an exception left the handler                               *)
(***************************************************************************)
Ev(kind, what, a, b) == [kind |-> kind, what |-> what, a |-> a, b |-> b]

Did(op, log) == [op |-> op, log |-> log]

\* os.listdir(d)
listdir(f, d) == {q \in Paths : q # <<>> /\ dirname(q) = d /\ exists(f, q)}

\* _update_status_bar: the text it sets, as <<form, folders, files>>
StatusText(f, cp, sel) ==
    IF sel = {}
    THEN IF cp # NoPath /\ isdir(f, cp)
         THEN <<"dir", Cardinality({q \in listdir(f, cp) : isdir(f, q)}),
                       Cardinality({q \in listdir(f, cp) : ~isdir(f, q)})>>
         ELSE <<"empty", 0, 0>>
    ELSE <<"selected", Cardinality({q \in sel : isdir(f, q)}),
                       Cardinality({q \in sel : ~isdir(f, q)})>>

\* refresh: the restore loop evaluates  Qt.QItemSelectionModel.Select  for
\* the first remembered path that self.model.index finds, and the class
\* PyQt5.QtCore.Qt has no attribute QItemSelectionModel
RefreshRaises(f, cp, sel) == cp # NoPath /\ \E q \in sel : exists(f, q)

\* the status bar after refresh
AfterRefreshStatus(f, cp, sel, sb) ==
    IF cp # NoPath /\ ~RefreshRaises(f, cp, sel) THEN StatusText(f, cp, sel) ELSE sb

\* QFileSystemModel.setRootPath keeps its root when the path is no directory
AfterSetRootPath(f, root, path) == IF isdir(f, path) THEN path ELSE root

\* tree_view.expand(index): an invalid index is ignored
AfterExpand(e, p) == IF p = NoPath THEN e ELSE e \cup {p}

\* os.walk(path): the directories below path
SubDirs(f, path) == {q \in Paths : HasPrefix(q, path) /\ q # path /\ isdir(f, q)}

(***************************************************************************)
(* The state after construction                                            *)
(***************************************************************************)
Constructed ==
    /\ current_path = NoPath
    /\ model_root = NoPath
    /\ tree_root = NoPath
    /\ watched_dirs = {}
    /\ watched_files = {}
    /\ selection = {}
    /\ current_index = NoPath
    /\ status_bar = <<"empty", 0, 0>>
    /\ expanded = {}
    /\ last = Did("__init__", <<>>)

Init ==
    /\ Constructed
    /\ fs \in FileSystems
    /\ filter_text = <<>>
    /\ row = [name |-> <<"a">>, isDir |-> FALSE]
    /\ accepted = TRUE

(***************************************************************************)
(* Selection in the tree and _on_selection_changed                         *)
(***************************************************************************)
\* the items of the tree: what the model shows below the root index; the
\* model fetches nothing before setRootPath
Shown(f, root, p) == root # NoPath /\ HasPrefix(p, root) /\ p # root /\ exists(f, p)

click_item(p) ==
    /\ Shown(fs, tree_root, p)
    /\ selection' = {p}
    /\ current_index' = p
    /\ status_bar' = StatusText(fs, current_path, {p})
    /\ last' = Did("_on_selection_changed", <<>>)
    /\ UNCHANGED <<fs, current_path, model_root, tree_root, watched_dirs,
                   watched_files, filter_text, row, accepted, expanded>>

\* a click on the empty area of the view clears the selection
click_empty_space ==
    /\ selection' = {}
    /\ status_bar' = StatusText(fs, current_path, {})
    /\ last' = Did("_on_selection_changed", <<>>)
    /\ UNCHANGED <<fs, current_path, model_root, tree_root, watched_dirs,
                   watched_files, current_index, filter_text, row, accepted, expanded>>

(***************************************************************************)
(* set_root_path, _go_up                                                   *)
(***************************************************************************)
RootRejected_never(f, path) == FALSE

RootRejected(f, path) == ~exists(f, path)

set_root_path_as(op, path) ==
    IF RootRejected(fs, path)
    THEN /\ last' = Did(op, <<>>)
         /\ UNCHANGED <<fs, current_path, model_root, tree_root, watched_dirs,
                        watched_files, selection, current_index, status_bar,
                        filter_text, row, accepted, expanded>>
    ELSE /\ current_path' = path
         /\ model_root' = AfterSetRootPath(fs, model_root, path)
         /\ tree_root' = AfterSetRootPath(fs, model_root, path)
         /\ watched_dirs' = (IF isdir(fs, path) THEN {path} ELSE {}) \cup SubDirs(fs, path)
         /\ watched_files' = IF isdir(fs, path) THEN watched_files
                             ELSE watched_files \cup {path}
         /\ status_bar' = StatusText(fs, path, selection)
         /\ expanded' = AfterExpand(expanded, AfterSetRootPath(fs, model_root, path))
         /\ last' = Did(op, <<Ev("emit", "directory_changed", path, NoPath)>>)
         /\ UNCHANGED <<fs, selection, current_index, filter_text, row, accepted>>

set_root_path(path) == set_root_path_as("set_root_path", path)

go_up ==
    /\ current_path # NoPath
    /\ IF exists(fs, dirname(current_path))
       THEN set_root_path_as("_go_up", dirname(current_path))
       ELSE /\ last' = Did("_go_up", <<>>)
            /\ UNCHANGED <<fs, current_path, model_root, tree_root, watched_dirs,
                           watched_files, selection, current_index, status_bar,
                           filter_text, row, accepted, expanded>>

(***************************************************************************)
(* refresh (timer, Refresh action), watcher notifications                  *)
(***************************************************************************)
\* a refresh that announces the root the way set_root_path does
RefreshLog_emits(f, cp, sel) ==
    <<Ev("refresh", "", NoPath, NoPath),
      Ev("emit", "directory_changed", cp, NoPath)>>

RefreshLog(f, cp, sel) ==
    IF RefreshRaises(f, cp, sel)
    THEN <<Ev("refresh", "", NoPath, NoPath), Ev("raise", "AttributeError", NoPath, NoPath)>>
    ELSE <<Ev("refresh", "", NoPath, NoPath)>>

refresh ==
    /\ status_bar' = AfterRefreshStatus(fs, current_path, selection, status_bar)
    /\ last' = Did("refresh", RefreshLog(fs, current_path, selection))
    /\ UNCHANGED <<fs, current_path, model_root, tree_root, watched_dirs,
                   watched_files, selection, current_index, filter_text, row,
                   accepted, expanded>>

on_directory_changed(path) ==
    /\ path \in watched_dirs
    /\ status_bar' = AfterRefreshStatus(fs, current_path, selection, status_bar)
    /\ last' = Did("_on_directory_changed",
                   IF RefreshRaises(fs, current_path, selection)
                   THEN RefreshLog(fs, current_path, selection)
                   ELSE RefreshLog(fs, current_path, selection)
                        \o <<Ev("emit", "directory_changed", path, NoPath)>>)
    /\ UNCHANGED <<fs, current_path, model_root, tree_root, watched_dirs,
                   watched_files, selection, current_index, filter_text, row,
                   accepted, expanded>>

on_file_changed(path) ==
    /\ path \in watched_files
    /\ status_bar' = AfterRefreshStatus(fs, current_path, selection, status_bar)
    /\ last' = Did("_on_file_changed",
                   RefreshLog(fs, current_path, selection))
    /\ UNCHANGED <<fs, current_path, model_root, tree_root, watched_dirs,
                   watched_files, selection, current_index, filter_text, row,
                   accepted, expanded>>

(***************************************************************************)
(* _on_item_double_clicked                                                 *)
(***************************************************************************)
\* if self.file_watcher and not path in self.file_watcher.directories()
DoubleClickWatches_always(path, dirs) == TRUE

DoubleClickWatches(path, dirs) == path \notin dirs

on_item_double_clicked(path) ==
    /\ Shown(fs, tree_root, path)
    /\ IF isfile(fs, path)
       THEN /\ last' = Did("_on_item_double_clicked",
                           <<Ev("emit", "file_selected", path, NoPath)>>)
            /\ UNCHANGED <<expanded, watched_dirs>>
       ELSE IF isdir(fs, path)
       THEN IF path \in expanded
            THEN /\ expanded' = expanded \ {path}
                 /\ last' = Did("_on_item_double_clicked", <<>>)
                 /\ UNCHANGED watched_dirs
            ELSE /\ expanded' = AfterExpand(expanded, path)
                 /\ IF DoubleClickWatches(path, watched_dirs)
                    THEN /\ watched_dirs' = watched_dirs \cup {path}
                         /\ last' = Did("_on_item_double_clicked",
                                        <<Ev("addPath", "", path, NoPath)>>)
                    ELSE /\ last' = Did("_on_item_double_clicked", <<>>)
                         /\ UNCHANGED watched_dirs
       ELSE /\ last' = Did("_on_item_double_clicked", <<>>)
            /\ UNCHANGED <<expanded, watched_dirs>>
    /\ UNCHANGED <<fs, current_path, model_root, tree_root, watched_files,
                   selection, current_index, status_bar, filter_text, row,
                   accepted>>

(***************************************************************************)
(* _create_new_file, _create_new_folder                                    *)
(***************************************************************************)
\* the parent directory when parent_path is None
DefaultParent(f, cur, cp) ==
    IF cur # NoPath
    THEN IF isfile(f, cur) THEN dirname(cur) ELSE cur
    ELSE cp

ParentPath(f, parent_arg, cur, cp) ==
    IF parent_arg = NoPath THEN DefaultParent(f, cur, cp) ELSE parent_arg

\* if os.path.exists(file_path): ... return
CreateRefused_never(f, p) == FALSE

CreateRefused(f, p) == exists(f, p)

\* the tail of the try block once the path has been created or renamed or
\* removed: self.refresh(), then the selection of new_sel (when given) and
\* the signal
Unchanged_ui == UNCHANGED <<current_path, model_root, tree_root, watched_dirs,
                            watched_files, filter_text, row, accepted, expanded>>

Complete(op, f2, select_path, signals, head) ==
    /\ fs' = f2
    /\ IF RefreshRaises(f2, current_path, selection)
       THEN /\ last' = Did(op,
                           head \o <<Ev("refresh", "", NoPath, NoPath),
                                     Ev("caught", "AttributeError", NoPath, NoPath),
                                     Ev("critical", "Error", NoPath, NoPath)>>)
            /\ UNCHANGED <<selection, current_index, status_bar>>
       ELSE /\ last' = Did(op,
                           head \o <<Ev("refresh", "", NoPath, NoPath)>> \o signals)
            /\ IF select_path # NoPath /\ exists(f2, select_path)
               THEN /\ selection' = {select_path}
                    /\ current_index' = select_path
                    /\ status_bar' = StatusText(f2, current_path, {select_path})
               ELSE /\ status_bar' = AfterRefreshStatus(f2, current_path, selection, status_bar)
                    /\ UNCHANGED <<selection, current_index>>
    /\ Unchanged_ui

Stop(op, log) ==
    /\ last' = Did(op, log)
    /\ UNCHANGED <<fs, selection, current_index, status_bar>>
    /\ Unchanged_ui

create_new_file(parent_arg, file_name, ok) ==
    LET parent_path == ParentPath(fs, parent_arg, current_index, current_path)
        file_path == join(parent_path, file_name)
        op == "_create_new_file"
    IN  /\ (ok /\ file_name # "" /\ parent_path \in Paths) => file_path \in Paths
        /\ IF ~(ok /\ file_name # "")
           THEN Stop(op, <<>>)
           ELSE IF parent_path \notin Paths
           THEN Stop(op,
                     <<Ev("raise", "TypeError", NoPath, NoPath)>>)
           ELSE IF CreateRefused(fs, file_path)
           THEN Stop(op,
                     <<Ev("warning", "File Exists", file_path, NoPath)>>)
           ELSE IF ~CanOpenW(fs, file_path)
           THEN Stop(op,
                     <<Ev("caught", "OSError", NoPath, NoPath),
                       Ev("critical", "Error", NoPath, NoPath)>>)
           ELSE Complete(op, AfterOpenW(fs, file_path),
                         file_path,
                         <<Ev("emit", "file_created", file_path, NoPath)>>, <<>>)

create_new_folder(parent_arg, folder_name, ok) ==
    LET parent_path == ParentPath(fs, parent_arg, current_index, current_path)
        folder_path == join(parent_path, folder_name)
        op == "_create_new_folder"
    IN  /\ (ok /\ folder_name # "" /\ parent_path \in Paths) => folder_path \in Paths
        /\ IF ~(ok /\ folder_name # "")
           THEN Stop(op, <<>>)
           ELSE IF parent_path \notin Paths
           THEN Stop(op,
                     <<Ev("raise", "TypeError", NoPath, NoPath)>>)
           ELSE IF CreateRefused(fs, folder_path)
           THEN Stop(op,
                     <<Ev("warning", "Folder Exists", folder_path, NoPath)>>)
           ELSE IF ~CanMakedirs(fs, folder_path)
           THEN Stop(op,
                     <<Ev("caught", "OSError", NoPath, NoPath),
                       Ev("critical", "Error", NoPath, NoPath)>>)
           ELSE Complete(op, AfterMakedirs(fs, folder_path),
                         folder_path, <<>>, <<>>)

(***************************************************************************)
(* _rename_item                                                            *)
(***************************************************************************)
\* if os.path.exists(new_path): ... return
RenameRefused_never(f, p) == FALSE

RenameRefused(f, p) == exists(f, p)

rename_item(path, new_name, ok) ==
    LET current_name == basename(path)
        new_path == join(dirname(path), new_name)
        op == "_rename_item"
    IN  /\ path \in Paths \ {<<>>}
        /\ (ok /\ new_name # "") => new_path \in Paths
        /\ IF ~(ok /\ new_name # "" /\ new_name # current_name)
           THEN Stop(op, <<>>)
           ELSE IF RenameRefused(fs, new_path)
           THEN Stop(op,
                     <<Ev("warning", "Path Exists", new_path, NoPath)>>)
           ELSE IF ~CanRename(fs, path)
           THEN Stop(op,
                     <<Ev("caught", "OSError", NoPath, NoPath),
                       Ev("critical", "Error", NoPath, NoPath)>>)
           ELSE Complete(op, AfterRename(fs, path, new_path),
                         new_path,
                         <<Ev("emit", "file_renamed", path, new_path)>>, <<>>)

(***************************************************************************)
(* _delete_item                                                            *)
(***************************************************************************)
\* if reply == QMessageBox.Yes
DeleteConfirmed_always(reply) == TRUE

DeleteConfirmed(reply) == reply = "Yes"

delete_item(path, reply) ==
    LET op == "_delete_item"
        asked == <<Ev("question", "Confirm Delete", NoPath, NoPath)>>
    IN  /\ path \in Paths \ {<<>>}
        /\ IF ~DeleteConfirmed(reply)
           THEN Stop(op, asked)
           ELSE IF isdir(fs, path)
           THEN Complete(op, AfterRmtree(fs, path), NoPath,
                         <<Ev("emit", "file_deleted", path, NoPath)>>, asked)
           ELSE IF exists(fs, path)
           THEN Complete(op, AfterRemove(fs, path), NoPath,
                         <<Ev("emit", "file_deleted", path, NoPath)>>, asked)
           ELSE Stop(op,
                     asked \o <<Ev("caught", "OSError", NoPath, NoPath),
                                Ev("critical", "Error", NoPath, NoPath)>>)

(***************************************************************************)
(* _open_in_explorer: the launcher either starts or cannot be started      *)
(***************************************************************************)
open_in_explorer(path, started) ==
    /\ path \in Paths
    /\ Stop("_open_in_explorer",
            IF started THEN <<>>
            ELSE <<Ev("caught", "OSError", NoPath, NoPath),
                   Ev("critical", "Error", NoPath, NoPath)>>)

(***************************************************************************)
(* The browser                                                             *)
(***************************************************************************)
\* parent_path: None (a direct call), the  checked  flag of
\* QAction.triggered (toolbar, empty-space menu), a path (directory menu)
ParentArgs == {NoPath, CheckedFalse, <<>>, <<"a">>}

\* the paths the host passes to set_root_path
RootInputs == {<<>>, <<"a">>}

\* QInputDialog.getText: the text entered and whether OK was pressed; a
\* cancelled dialog returns the empty text
Typed == {<<n, TRUE>> : n \in Names \cup {""}} \cup {<<"", FALSE>>}

Next ==
    \/ \E p \in Paths : click_item(p)
    \/ click_empty_space
    \/ \E p \in RootInputs : set_root_path(p)
    \/ go_up
    \/ refresh
    \/ \E p \in Paths : on_directory_changed(p)
    \/ \E p \in Paths : on_file_changed(p)
    \/ \E a \in ParentArgs, t \in Typed : create_new_file(a, t[1], t[2])
    \/ \E a \in ParentArgs, t \in Typed : create_new_folder(a, t[1], t[2])
    \/ \E p \in Paths, t \in Typed : rename_item(p, t[1], t[2])
    \/ \E p \in Paths, r \in {"Yes", "No"} : delete_item(p, r)
    \/ \E p \in {<<>>, <<"a">>}, st \in BOOLEAN : open_in_explorer(p, st)

Spec == Init /\ [][Next]_vars

(***************************************************************************)
(* Double-clicks: a root is set, folders are created below it, items are   *)
(* double-clicked.                                                         *)
(***************************************************************************)
NextClick ==
    \/ \E p \in RootInputs : set_root_path(p)
    \/ \E a \in ParentArgs, t \in Typed : create_new_folder(a, t[1], t[2])
    \/ \E p \in Paths : on_item_double_clicked(p)

ClickSpec == Init /\ [][NextClick]_vars

(***************************************************************************)
(* The filter proxy: one row of the source model, filtered again whenever  *)
(* the search text changes (_on_search_text_changed -> setFilterRegExp).   *)
(***************************************************************************)
Rows == {[name |-> n, isDir |-> d] : n \in Words(MaxLen) \ {<<>>}, d \in BOOLEAN}

InitFilter ==
    /\ Constructed
    /\ fs = [p \in Paths |-> IF p = <<>> THEN "dir" ELSE "absent"]
    /\ filter_text = <<>>
    /\ row \in Rows
    /\ accepted = filterAcceptsRow(row, <<>>)

on_search_text_changed(text) ==
    /\ filter_text' = text
    /\ accepted' = filterAcceptsRow(row, text)
    /\ status_bar' = StatusText(fs, current_path, selection)
    /\ expanded' = IF text # <<>>
                    THEN expanded \cup {q \in Paths : Shown(fs, tree_root, q) /\ isdir(fs, q)}
                    ELSE AfterExpand({}, tree_root)
    /\ last' = Did("_on_search_text_changed", <<>>)
    /\ UNCHANGED <<row, fs, current_path, model_root, tree_root, watched_dirs,
                   watched_files, selection, current_index>>

\* the texts one edit of the search input leads to: a character typed, the
\* last character deleted, the clear button
Edits(text) ==
    {Append(text, c) : c \in {d \in Chars : Len(text) < MaxLen}}
        \cup {SubSeq(text, 1, Len(text) - 1) : x \in {y \in {1} : text # <<>>}}
        \cup {<<>>}

NextFilter == \E text \in Edits(filter_text) : on_search_text_changed(text)

FilterSpec == InitFilter /\ [][NextFilter]_vars

\* C1: a row that is a directory is accepted under every filter text, so no
\* sequence of search-text changes filters a directory out of the tree.
C1_DirectoriesAlwaysAccepted == row.isDir => accepted

\* a directory whose name does not contain the search text is shown
C1_Witness ==
    /\ row.isDir
    /\ last.op = "_on_search_text_changed"
    /\ filter_text # <<>>
    /\ ~Contains(lower(row.name), lower(filter_text))
    /\ accepted

\* d is c in the other case (or c itself)
CaseChange(c, d) == d = c \/ d = upperChar(c) \/ c = upperChar(d)

CaseVariants(s) ==
    {t \in [1..Len(s) -> Chars] : \A i \in 1..Len(s) : CaseChange(s[i], t[i])}

\* C2: for a file row the result of filterAcceptsRow is the same when the
\* case of letters of the filter text or of the file name is changed.
C2_CaseInsensitive ==
    ~row.isDir =>
        \A n \in CaseVariants(row.name), t \in CaseVariants(filter_text) :
            filterAcceptsRow([row EXCEPT !.name = n], t) = accepted

\* the lower-cased text occurs in the lower-cased name at some offset
OccursLowerCased(text, name) ==
    \E off \in 0..Len(name) :
        /\ off + Len(text) <= Len(name)
        /\ \A k \in 1..Len(text) : lower(name)[off + k] = lower(text)[k]

\* C3: a file row is accepted exactly when the filter text is empty or the
\* lower-cased filter text is a contiguous substring of the lower-cased file
\* name; with an empty filter every row is accepted.
C3_FileAcceptedIffSubstring ==
    /\ ~row.isDir =>
          (accepted <=> (filter_text = <<>> \/ OccursLowerCased(filter_text, row.name)))
    /\ filter_text = <<>> => accepted

\* a file is accepted through a match that needs the lower-casing
C3_Witness ==
    /\ ~row.isDir
    /\ last.op = "_on_search_text_changed"
    /\ filter_text # <<>>
    /\ accepted
    /\ ~Contains(row.name, filter_text)

(***************************************************************************)
(* Properties of the browser's handlers                                    *)
(***************************************************************************)
\* how often the event e occurs in a handler's log
Count(log, e) == Cardinality({i \in 1..Len(log) : log[i] = e})

\* how often the signal sig was emitted, with any arguments
Emitted(log, sig) ==
    Cardinality({i \in 1..Len(log) : log[i].kind = "emit" /\ log[i].what = sig})

Has(log, kind) == \E i \in 1..Len(log) : log[i].kind = kind

\* C4: _create_new_file and _create_new_folder called with a name whose path
\* (parent directory joined with the name) exists leave the file system as
\* it was and emit no file_created.
C4_CreateRefusesToOverwrite ==
    [][\A a \in ParentArgs, t \in Typed :
          LET parent == ParentPath(fs, a, current_index, current_path)
          IN  (/\ last'.op \in {"_create_new_file", "_create_new_folder"}
               /\ t[2] /\ t[1] # ""
               /\ parent \in Paths
               /\ exists(fs, join(parent, t[1]))
               /\ \/ create_new_file(a, t[1], t[2])
                  \/ create_new_folder(a, t[1], t[2]))
              => /\ fs' = fs
                 /\ Emitted(last'.log, "file_created") = 0]_vars

\* a create was refused on a path that exists
C4_Witness ==
    /\ last.op \in {"_create_new_file", "_create_new_folder"}
    /\ \E p \in Paths :
          /\ exists(fs, p)
          /\ \/ last.log = <<Ev("warning", "File Exists", p, NoPath)>>
             \/ last.log = <<Ev("warning", "Folder Exists", p, NoPath)>>

\* C5: _rename_item leaves the file system as it was and emits no
\* file_renamed when the new path exists, when the dialog is cancelled, when
\* the new name is empty and when it equals the current name.
C5_RenameRefusesToOverwrite ==
    [][\A p \in Paths \ {<<>>}, t \in Typed :
          (/\ last'.op = "_rename_item"
           /\ \/ ~t[2]
              \/ t[1] = ""
              \/ t[1] = basename(p)
              \/ exists(fs, join(dirname(p), t[1]))
           /\ rename_item(p, t[1], t[2]))
          => /\ fs' = fs
             /\ Emitted(last'.log, "file_renamed") = 0]_vars

\* a rename was refused because the new path exists
C5_Witness ==
    /\ last.op = "_rename_item"
    /\ \E p \in Paths :
          /\ exists(fs, p)
          /\ last.log = <<Ev("warning", "Path Exists", p, NoPath)>>

\* C6: _delete_item answered No leaves the file system as it was, does no
\* refresh and emits no file_deleted; answered Yes it removes a file, and a
\* directory together with everything below it, and nothing else.
C6_DeleteOnlyOnYes ==
    [][\A p \in Paths \ {<<>>} :
          /\ (last'.op = "_delete_item" /\ delete_item(p, "No"))
             => /\ fs' = fs
                /\ ~Has(last'.log, "refresh")
                /\ Emitted(last'.log, "file_deleted") = 0
          /\ (last'.op = "_delete_item" /\ delete_item(p, "Yes"))
             => \A q \in Paths :
                   fs'[q] = IF HasPrefix(q, p) THEN "absent" ELSE fs[q]]_vars

\* a delete was declined
C6_Witness ==
    /\ last.op = "_delete_item"
    /\ last.log = <<Ev("question", "Confirm Delete", NoPath, NoPath)>>
    /\ \E p \in Paths \ {<<>>} : isdir(fs, p) /\ listdir(fs, p) # {}

FileOps ==
    {"_create_new_file", "_create_new_folder", "_rename_item", "_delete_item",
     "_open_in_explorer"}

\* C7: no exception leaves a file-system operation of the browser; a
\* failure is caught in the operation and shown as a critical dialog.
C7_NoExceptionLeavesOperation ==
    last.op \in FileOps =>
        /\ ~Has(last.log, "raise")
        /\ Has(last.log, "caught") => Has(last.log, "critical")

\* C8: a new-file operation emits file_created(path) once if it created the
\* file at path and not otherwise; likewise _rename_item and file_renamed,
\* _delete_item and file_deleted.
C8_SignalsMatchMutations ==
    [][/\ last'.op = "_create_new_file" =>
            \A p \in Paths :
                Count(last'.log, Ev("emit", "file_created", p, NoPath))
                    = IF ~exists(fs, p) /\ isfile(fs', p) THEN 1 ELSE 0
       /\ last'.op = "_rename_item" =>
            \A p \in Paths, q \in Paths :
                Count(last'.log, Ev("emit", "file_renamed", p, q))
                    = IF /\ p # q
                         /\ exists(fs, p) /\ ~exists(fs', p)
                         /\ ~exists(fs, q) /\ exists(fs', q)
                      THEN 1 ELSE 0
       /\ last'.op = "_delete_item" =>
            \A p \in Paths :
                Count(last'.log, Ev("emit", "file_deleted", p, NoPath))
                    = IF /\ exists(fs, p) /\ ~exists(fs', p)
                         /\ \A q \in Paths : ~exists(fs', q) => HasPrefix(q, p) \/ ~exists(fs, q)
                      THEN 1 ELSE 0]_vars

\* C9: a directory-changed notification for p refreshes and then emits
\* directory_changed(p) once; a file-changed notification refreshes and
\* emits nothing; neither changes current_path or the file system.
C9_WatcherNotifications ==
    [][/\ last'.op = "_on_directory_changed" =>
            \E p \in watched_dirs :
                last'.log = <<Ev("refresh", "", NoPath, NoPath),
                              Ev("emit", "directory_changed", p, NoPath)>>
       /\ last'.op = "_on_file_changed" =>
            last'.log = <<Ev("refresh", "", NoPath, NoPath)>>
       /\ last'.op \in {"_on_directory_changed", "_on_file_changed"} =>
            current_path' = current_path /\ fs' = fs]_vars

\* C10: set_root_path with a path that does not exist changes none of
\* current_path, the model root, the tree root index, the watched
\* directories and the status bar, and emits no directory_changed.
C10_MissingRootRejected ==
    [][\A p \in RootInputs :
          (last'.op = "set_root_path" /\ ~exists(fs, p) /\ set_root_path(p))
          => /\ UNCHANGED <<current_path, model_root, tree_root, watched_dirs,
                            status_bar>>
             /\ Emitted(last'.log, "directory_changed") = 0]_vars

\* set_root_path was called with a missing path after a root had been set
C10_Witness ==
    /\ last.op = "set_root_path"
    /\ last.log = <<>>
    /\ current_path # NoPath
    /\ \E p \in RootInputs : ~exists(fs, p)

\* C11: after set_root_path(p) with an existing path p, current_path is p,
\* the watched directories are exactly p and the directories below p (every
\* directory watched before is gone unless it is one of these), and
\* directory_changed(p) is the one signal emitted, as the last step.
C11_RootPathSet ==
    [][\A p \in RootInputs :
          (last'.op = "set_root_path" /\ exists(fs, p) /\ set_root_path(p))
          => /\ current_path' = p
             /\ watched_dirs' = {p} \cup SubDirs(fs, p)
             /\ last'.log = <<Ev("emit", "directory_changed", p, NoPath)>>]_vars

\* C12: when a root path is set, refresh completes without raising and every
\* path that was selected before it and still exists is selected after it.
C12_RefreshRestoresSelection ==
    [][(last'.op = "refresh" /\ current_path # NoPath)
          => /\ ~Has(last'.log, "raise")
             /\ \A q \in selection : exists(fs', q) => q \in selection']_vars

\* C13: refresh leaves current_path, the model root, the filter text, the
\* watched directories and the file system as they were and emits no signal;
\* while current_path is None it changes nothing at all.
C13_RefreshFrame ==
    [][last'.op = "refresh"
          => /\ UNCHANGED <<current_path, model_root, filter_text, watched_dirs, fs>>
             /\ ~Has(last'.log, "emit")
             /\ (current_path = NoPath) =>
                   /\ UNCHANGED <<filter_text, row, accepted, fs, current_path,
                                  model_root, tree_root, watched_dirs,
                                  watched_files, selection, current_index,
                                  status_bar, expanded>>
                   /\ last'.log = <<Ev("refresh", "", NoPath, NoPath)>>]_vars

\* refresh has run to its end on a browser whose root is set and watched
C13_Witness ==
    /\ last = Did("refresh", <<Ev("refresh", "", NoPath, NoPath)>>)
    /\ current_path # NoPath
    /\ watched_dirs # {}

\* C14: a create request without a parent directory (None from a direct
\* call, the checked flag from the toolbar or the empty-space menu) uses the
\* directory of the current file, or the current directory, or the root path
\* when nothing is current; a given parent directory is used as it is; when
\* that parent is a directory, the path that comes into being is the parent
\* joined with the name, and no other path changes.
C14_ParentDirectoryUsed ==
    [][\A a \in ParentArgs, t \in Typed :
          LET parent == IF a \in Paths THEN a
                        ELSE DefaultParent(fs, current_index, current_path)
              path == join(parent, t[1])
          IN  (/\ last'.op \in {"_create_new_file", "_create_new_folder"}
               /\ t[2] /\ t[1] # ""
               /\ parent \in Paths
               /\ path \in Paths
               /\ isdir(fs, parent)
               /\ \/ create_new_file(a, t[1], t[2])
                  \/ create_new_folder(a, t[1], t[2]))
              => /\ ~Has(last'.log, "raise")
                 /\ \A q \in Paths \ {path} : fs'[q] = fs[q]
                 /\ ~exists(fs, path) => exists(fs', path)]_vars

\* C15: a double-click on a file emits file_selected(path) once and leaves
\* the expansion state alone; on a directory it emits no file_selected and
\* flips that directory between expanded and collapsed and no other (so a
\* second double-click restores the state); a directory the double-click
\* expands is watched afterwards, and addPath is called exactly when it was
\* not watched before.
C15_DoubleClick ==
    [][\A p \in Paths :
          (last'.op = "_on_item_double_clicked" /\ on_item_double_clicked(p))
          => /\ isfile(fs, p) =>
                   /\ last'.log = <<Ev("emit", "file_selected", p, NoPath)>>
                   /\ UNCHANGED <<expanded, watched_dirs>>
             /\ isdir(fs, p) =>
                   /\ Emitted(last'.log, "file_selected") = 0
                   /\ expanded' \ {p} = expanded \ {p}
                   /\ (p \in expanded') = (p \notin expanded)
                   /\ watched_dirs' = IF p \in expanded' THEN watched_dirs \cup {p}
                                      ELSE watched_dirs
                   /\ Count(last'.log, Ev("addPath", "", p, NoPath))
                         = IF p \in expanded' /\ p \notin watched_dirs THEN 1 ELSE 0]_vars

\* a double-click has expanded a directory that was not watched
C15_Witness ==
    /\ last.op = "_on_item_double_clicked"
    /\ \E p \in expanded \cap watched_dirs :
          last.log = <<Ev("addPath", "", p, NoPath)>>

====
